---- MODULE Spec2Model ----
(***************************************************************************)
(* A model of pymaid/morpho.py: the skeleton tree of a neuron (treenodes   *)
(* with parent links, a computed 'type' column, connectors) and the        *)
(* operations classify_nodes, downsample_neuron, reroot_neuron,            *)
(* cut_neuron, _cut_neuron, calc_strahler_index and _walk_to_root.         *)
(*                                                                         *)
(* A neuron is a record                                                    *)
(*   nodes        the set of treenode ids (the rows of df.nodes)           *)
(*   parent_id    treenode id -> parent treenode id, None at the root      *)
(*   typed        whether df.nodes has the columns 'type'/'has_synapses'   *)
(*   type         treenode id -> "root" | "slab" | "branch" | "end"        *)
(*   has_synapses treenode id -> BOOLEAN                                   *)
(*   connectors   the rows of df.connectors: their treenode_id, in order   *)
(*   x            (for _walk_to_root) treenode id -> its coordinate        *)
(* Rows of df.nodes are taken in ascending treenode id (calc_strahler_index *)
(* is started on every order of the end nodes).  The operations are        *)
(* modelled on the path a single neuron takes through them, with the       *)
(* neuron's graph (df.igraph) built from the neuron's current nodes; the   *)
(* halves of cut_neuron are neuron_dist and neuron_prox (lines 488-528),   *)
(* those of cut_neuron_CatmaidNeuron the n_dist and n_prox of lines        *)
(* 529-544.                                                                *)
(* The halves of _cut_neuron carry the rows as selected: the assignments   *)
(* through .ix[ cut_node ] at lines 655-670 act on a copy of the row.      *)
(***************************************************************************)
EXTENDS Integers, Sequences, FiniteSets, TLC

VARIABLES
  df,                  \* the neuron the caller holds
  pre,                 \* the neuron that was passed to the last operation
  orig,                \* the neuron as first loaded
  hist,                \* the operations applied so far, with their outcome
  out,                 \* what the last operation returned
  starting_points,     \* calc_strahler_index: the current wave
  new_starting_points, \* calc_strahler_index: the next wave
  starting_points_done,\* calc_strahler_index: processed in this wave
  nodes_processed,     \* calc_strahler_index: nodes that have an index
  strahler_index,      \* calc_strahler_index: treenode id -> index or None
  pc                   \* calc_strahler_index: position in the function

vars == <<df, pre, orig, hist, out, starting_points, new_starting_points,
          starting_points_done, nodes_processed, strahler_index, pc>>

strahlerVars == <<starting_points, new_starting_points, starting_points_done,
                  nodes_processed, strahler_index, pc>>

----------------------------------------------------------------------------
(* Bounds *)

MaxNodes == 5

MaxConn == 1

MaxFactor == 2

MaxReroots == 2

\* the neurons _walk_to_root walks: their size, the largest coordinate, and
\* the number of walks that share a cache
MaxWalkNodes == 4

MaxCoord == 2

MaxWalks == 2

\* the size of the neurons with a parent_id that is no treenode
MaxDanglingNodes == 4

----------------------------------------------------------------------------
(* Values *)

None == 0

NodeIds == 1..MaxNodes

Min(S) == CHOOSE x \in S : \A y \in S : x <= y

Max(S) == CHOOSE x \in S : \A y \in S : y <= x

RECURSIVE SortedSeq(_)
SortedSeq(S) == IF S = {} THEN <<>>
                ELSE LET m == Min(S) IN <<m>> \o SortedSeq(S \ {m})

Range(s) == { s[i] : i \in DOMAIN s }

\* d[k] = v on a dict d
Put(d, k, v) == [ x \in (DOMAIN d) \cup {k} |-> IF x = k THEN v ELSE d[x] ]

\* d.update(e) on dicts d, e
Update(d, e) == [ x \in (DOMAIN d) \cup (DOMAIN e) |->
                    IF x \in DOMAIN e THEN e[x] ELSE d[x] ]

EmptyDict == [ x \in {} |-> None ]

\* the rows of df.nodes, in order
Rows(n) == SortedSeq(n.nodes)

----------------------------------------------------------------------------
(* generate_list_of_childs *)

\* one turn of the loop: append the row to its parent's list; when the
\* parent is no key (None or unknown), the except clause sets the None key
childs_step(loc, n, treenode) ==
  LET p == n.parent_id[treenode] IN
  IF p \in DOMAIN loc THEN [ loc EXCEPT ![p] = Append(@, treenode) ]
  ELSE Put(loc, None, <<None>>)

RECURSIVE childs_loop(_, _, _)
childs_loop(loc, n, rows) ==
  IF rows = <<>> THEN loc
  ELSE childs_loop(childs_step(loc, n, Head(rows)), n, Tail(rows))

generate_list_of_childs(n) ==
  childs_loop([ t \in n.nodes |-> <<>> ], n, Rows(n))

----------------------------------------------------------------------------
(* classify_nodes *)

classes_no_root_override(n, loc) ==
  LET end_nodes    == { k \in DOMAIN loc : Len(loc[k]) = 0 }
      branch_nodes == { k \in DOMAIN loc : Len(loc[k]) > 1 }
  IN  [ t \in n.nodes |->
          IF t \in branch_nodes THEN "branch"
          ELSE IF t \in end_nodes THEN "end"
          ELSE "slab" ]

\* the dict 'classes': 'slab', updated with 'end', 'branch', then 'root'
classes(n, loc) ==
  LET end_nodes    == { k \in DOMAIN loc : Len(loc[k]) = 0 }
      branch_nodes == { k \in DOMAIN loc : Len(loc[k]) > 1 }
      root         == { t \in n.nodes : n.parent_id[t] = None }
  IN  [ t \in n.nodes |->
          IF t \in root THEN "root"
          ELSE IF t \in branch_nodes THEN "branch"
          ELSE IF t \in end_nodes THEN "end"
          ELSE "slab" ]

classify_nodes(n) ==
  LET list_of_childs   == generate_list_of_childs(n)
      nodes_w_synapses == Range(n.connectors)
  IN  [ n EXCEPT !.typed = TRUE,
                 !.type = classes(n, list_of_childs),
                 !.has_synapses = [ t \in n.nodes |-> t \in nodes_w_synapses ] ]

----------------------------------------------------------------------------
(* downsample_neuron *)

fix_points_without_root(n) ==
  { t \in n.nodes : n.type[t] \notin { "slab", "root" } \/ n.has_synapses[t] }

fix_points_without_synapses(n) ==
  { t \in n.nodes : n.type[t] # "slab" }

\* the nodes kept whatever the factor
fix_points(n) ==
  { t \in n.nodes : n.type[t] # "slab" \/ n.has_synapses[t] }

\* the for loop over range(resampling_factor) from the candidate parent np:
\* <<"stop", np>> when np is a fix point, <<"jump", np>> when the range is
\* used up, <<"KeyError", None>> when list_of_parents has no entry for np
RECURSIVE jump(_, _, _, _)
jump(n, fix, np, i) ==
  IF i = 0 THEN <<"jump", np>>
  ELSE IF np \in fix THEN <<"stop", np>>
  ELSE IF np \notin n.nodes THEN <<"KeyError", None>>
  ELSE jump(n, fix, n.parent_id[np], i - 1)

\* the outcome of a step that may raise: the value, or the exception
Ok(v) == [ status |-> "ok", val |-> v ]

Raised(e) == [ status |-> e, val |-> None ]

\* the while loop from one fix point; new_parents is the dict so far
\* (KeyError when the walk leaves the dict of parents)
RECURSIVE walk(_, _, _, _, _)
walk(n, fix, factor, this_node, new_parents) ==
  IF this_node \notin n.nodes THEN Raised("KeyError")
  ELSE
  LET np == n.parent_id[this_node] IN
  IF np = None THEN Ok(Put(new_parents, this_node, None))
  ELSE LET j == jump(n, fix, np, factor) IN
       IF j[1] = "KeyError" THEN Raised("KeyError")
       ELSE IF j[1] = "stop" THEN Ok(Put(new_parents, this_node, j[2]))
       ELSE walk(n, fix, factor, j[2], Put(new_parents, this_node, j[2]))

RECURSIVE walk_all(_, _, _, _, _)
walk_all(n, fix, factor, todo, new_parents) ==
  IF todo = <<>> THEN Ok(new_parents)
  ELSE LET w == walk(n, fix, factor, Head(todo), new_parents) IN
       IF w.status # "ok" THEN w
       ELSE walk_all(n, fix, factor, Tail(todo), w.val)

\* the neuron returned (status "ok"), or the exception raised
downsample_neuron(n0, resampling_factor) ==
  IF n0.nodes = {} THEN Ok(n0)
  ELSE
  LET n   == IF n0.typed THEN n0 ELSE classify_nodes(n0)
      fix == fix_points(n)
      w   == walk_all(n, fix, resampling_factor, SortedSeq(fix), EmptyDict)
  IN  IF w.status # "ok" THEN w
      ELSE LET new_parents == w.val
               keep == n.nodes \cap DOMAIN new_parents
           IN Ok([ nodes        |-> keep,
                   parent_id    |-> [ t \in keep |-> new_parents[t] ],
                   typed        |-> TRUE,
                   type         |-> [ t \in keep |-> n.type[t] ],
                   has_synapses |-> [ t \in keep |-> n.has_synapses[t] ],
                   connectors   |-> n.connectors ])

----------------------------------------------------------------------------
(* The neuron's graph: one vertex per treenode, one edge from each treenode *)
(* to its parent                                                           *)

igraph_from_skeleton(n) ==
  [ vs |-> n.nodes,
    es |-> { <<t, n.parent_id[t]>> : t \in { u \in n.nodes : n.parent_id[u] # None } } ]

\* the neighbours of each vertex, whatever the direction of the edges
Adjacency(vs, es) ==
  [ v \in vs |-> { e[2] : e \in { f \in es : f[1] = v } } \cup
                 { e[1] : e \in { f \in es : f[2] = v } } ]

\* g.get_shortest_paths(from, to, mode = 'ALL'), one target at a time, by
\* breadth first search: 'paths' are the shortest paths from the source to
\* the vertices found last, 'seen' the vertices found so far
RECURSIVE bfs_path(_, _, _, _)
bfs_path(adj, paths, seen, to) ==
  IF \E p \in paths : p[Len(p)] = to
  THEN CHOOSE p \in paths : p[Len(p)] = to
  ELSE IF paths = {} THEN <<>>
  ELSE LET more == UNION { { Append(p, w) : w \in adj[p[Len(p)]] \ seen }
                           : p \in paths }
       IN  bfs_path(adj, more, seen \cup { q[Len(q)] : q \in more }, to)

\* the vertices that an undirected walk from the vertices S reaches
RECURSIVE Component(_, _)
Component(adj, S) ==
  LET T == S \cup UNION { adj[v] : v \in S } IN
  IF T = S THEN S ELSE Component(adj, T)

\* the subsets of E that have k elements
RECURSIVE KSubsets(_, _)
KSubsets(E, k) ==
  IF k = 0 THEN { {} }
  ELSE UNION { { T \cup {e} : T \in KSubsets(E \ {e}, k - 1) } : e \in E }

\* a smallest set of edges whose removal separates source and target,
\* every edge of capacity 1
RECURSIVE min_cut_edges(_, _, _, _)
min_cut_edges(g, source, target, k) ==
  LET cuts == { C \in KSubsets(g.es, k) :
                  target \notin Component(Adjacency(g.vs, g.es \ C), {source}) }
  IN  IF cuts # {} THEN CHOOSE C \in cuts : TRUE
      ELSE min_cut_edges(g, source, target, k + 1)

\* g.st_mincut(source, target, capacity = None): the cut, and the two
\* partitions, the first holding the source
st_mincut(g, source, target) ==
  LET cut == min_cut_edges(g, source, target, 0)
      side == Component(Adjacency(g.vs, g.es \ cut), {source})
  IN  [ cut |-> cut, partition |-> << side, g.vs \ side >> ]

----------------------------------------------------------------------------
(* reroot_neuron *)

\* { p[-i] : p[-i-1] for i in range(1, len(p)) }
path_parents(p) == [ t \in { p[k] : k \in 2..Len(p) } |->
                       p[(CHOOSE k \in 2..Len(p) : p[k] = t) - 1] ]

RECURSIVE paths_parents(_, _)
paths_parents(new_paths, new_parents) ==
  IF new_paths = <<>> THEN new_parents
  ELSE paths_parents(Tail(new_paths),
                     Update(new_parents, path_parents(Head(new_paths))))

\* the nodes the paths start from: those of type 'end'
leaf_nodes(n) == { t \in n.nodes : n.type[t] = "end" }

\* the neuron returned: status "ok" for the rerooted neuron, "noop" when
\* the input is returned as it is, or the exception raised
reroot_neuron(n0, new_root) ==
  IF new_root \notin n0.nodes THEN Raised("KeyError")
  ELSE IF n0.parent_id[new_root] = None THEN [ status |-> "noop", val |-> n0 ]
  ELSE
  LET g == igraph_from_skeleton(n0)
      n == IF n0.typed THEN n0 ELSE classify_nodes(n0)
      leaves == SortedSeq(leaf_nodes(n))
      adj == Adjacency(g.vs, g.es)
      shortest_paths == [ i \in DOMAIN leaves |->
                             bfs_path(adj, { << new_root >> }, { new_root },
                                      leaves[i]) ]
      LongEnough(p) == Len(p) > 1
      new_paths == SelectSeq(shortest_paths, LongEnough)
      new_parents == Put(paths_parents(new_paths, EmptyDict), new_root, None)
  IN  IF ~ (n.nodes \subseteq DOMAIN new_parents) THEN Raised("KeyError")
      ELSE Ok([ n EXCEPT !.parent_id = [ t \in n.nodes |-> new_parents[t] ] ])

----------------------------------------------------------------------------
(* cut_neuron *)

\* the rows of df.connectors whose treenode is (keep = TRUE) or is not
\* (keep = FALSE) among ids
connectors_where(n, ids, keep) ==
  LET Wanted(t) == (t \in ids) = keep IN SelectSeq(n.connectors, Wanted)

\* df.nodes.ix[ ids ]: the rows of these treenodes
nodes_ix(n, ids, c) ==
  LET rows == n.nodes \cap ids IN
  [ nodes        |-> rows,
    parent_id    |-> [ t \in rows |-> n.parent_id[t] ],
    typed        |-> n.typed,
    type         |-> [ t \in rows |-> n.type[t] ],
    has_synapses |-> [ t \in rows |-> n.has_synapses[t] ],
    connectors   |-> c ]

dist_index_is_source_side(mc, cut_node) == 1

\* the partition that holds the cut node is the distal one
dist_index(mc, cut_node) == IF cut_node \in mc.partition[1] THEN 1 ELSE 2

\* the halves returned, [dist, prox], or the exception raised
cut_neuron(n, cut_node) ==
  LET g == igraph_from_skeleton(n) IN
  IF cut_node \notin g.vs THEN [ status |-> "not found", val |-> None ]
  ELSE
  LET parent_edges == { e \in g.es : e[1] = cut_node } IN
  IF parent_edges = {} THEN Raised("Exception")
  ELSE
  LET parent_node == (CHOOSE e \in parent_edges : TRUE)[2]
      mc == st_mincut(g, parent_node, cut_node)
      d  == dist_index(mc, cut_node)
      dist_partition_ids == mc.partition[d]
      prox_partition_ids == mc.partition[3 - d]
      dist0 == nodes_ix(n, dist_partition_ids,
                        connectors_where(n, dist_partition_ids, TRUE))
      prox0 == nodes_ix(n, prox_partition_ids,
                        connectors_where(n, dist_partition_ids, FALSE))
      dist1 == [ dist0 EXCEPT !.parent_id[cut_node] = None ]
      neuron_dist == IF n.typed
                     THEN [ dist1 EXCEPT !.type[cut_node] = "root" ]
                     ELSE dist1
      neuron_prox == IF n.typed
                     THEN [ prox0 EXCEPT !.type[n.parent_id[cut_node]] = "end" ]
                     ELSE prox0
  IN  Ok([ dist |-> neuron_dist, prox |-> neuron_prox ])

----------------------------------------------------------------------------
(* _cut_neuron *)

walk_stop_branch_always_proximal(up, cut_node, root, branch_nodes, dp) ==
  IF up = cut_node THEN "distal"
  ELSE IF up = root THEN "proximal"
  ELSE IF up \in branch_nodes /\ up \in dp.distal \cup dp.proximal
    THEN "proximal"
  ELSE "walk on"

\* where a walk that reached the node 'up' stops: at the cut node, at the
\* root, or at a branch point that was assigned before
walk_stop(up, cut_node, root, branch_nodes, dp) ==
  IF up = cut_node THEN "distal"
  ELSE IF up = root THEN "proximal"
  ELSE IF up \in branch_nodes /\ up \in dp.distal THEN "distal"
  ELSE IF up \in branch_nodes /\ up \in dp.proximal THEN "proximal"
  ELSE "walk on"

\* the walk from one node towards the root: dp = [distal, proximal] are the
\* nodes assigned so far, nodes_walked the nodes of this walk
RECURSIVE cut_walk(_, _, _, _, _, _, _)
cut_walk(n, cut_node, root, branch_nodes, this_node, nodes_walked, dp) ==
  IF this_node \notin n.nodes THEN Raised("KeyError")
  ELSE
  LET up == n.parent_id[this_node]
      walked == nodes_walked \cup {up}
      stop == walk_stop(up, cut_node, root, branch_nodes, dp)
  IN  IF stop = "distal"
        THEN Ok([ dp EXCEPT !.distal = @ \cup walked ])
      ELSE IF stop = "proximal"
        THEN Ok([ dp EXCEPT !.proximal = @ \cup walked ])
      ELSE cut_walk(n, cut_node, root, branch_nodes, up, walked, dp)

RECURSIVE cut_walks(_, _, _, _, _, _)
cut_walks(n, cut_node, root, branch_nodes, starts, dp) ==
  IF starts = <<>> THEN Ok(dp)
  ELSE LET w == cut_walk(n, cut_node, root, branch_nodes,
                         Head(starts), { Head(starts) }, dp)
       IN  IF w.status # "ok" THEN w
           ELSE cut_walks(n, cut_node, root, branch_nodes, Tail(starts), w.val)

walk_starts_end_nodes_only(end_nodes, cut_node) == end_nodes

\* the nodes the walks start from: the end nodes in the order of their rows,
\* then the cut node
walk_starts(end_nodes, cut_node) == end_nodes \o << cut_node >>

cut_node_is_leaf_never(list_of_childs, cut_node) == FALSE

\* len( list_of_childs[ cut_node ] ) == 0
cut_node_is_leaf(list_of_childs, cut_node) ==
  Len(list_of_childs[cut_node]) = 0

\* the halves returned, [dist, prox], status "rejected" when the function
\* warns and returns nothing, or the exception raised
_cut_neuron(n0, cut_node) ==
  LET list_of_childs == generate_list_of_childs(n0)
      n == IF n0.typed THEN n0 ELSE classify_nodes(n0)
  IN
  IF cut_node \notin DOMAIN list_of_childs THEN Raised("KeyError")
  ELSE IF cut_node_is_leaf(list_of_childs, cut_node)
    THEN [ status |-> "rejected", val |-> "leaf" ]
  ELSE IF n.parent_id[cut_node] = None
    THEN [ status |-> "rejected", val |-> "root" ]
  ELSE
  LET end_nodes == SortedSeq({ t \in n.nodes : n.type[t] = "end" })
      branch_nodes == { t \in n.nodes : n.type[t] = "branch" }
      roots == { t \in n.nodes : n.type[t] = "root" }
  IN
  IF roots = {} THEN Raised("IndexError")
  ELSE
  LET root == Min(roots)
      w == cut_walks(n, cut_node, root, branch_nodes,
                     walk_starts(end_nodes, cut_node),
                     [ distal |-> {}, proximal |-> {} ])
  IN  IF w.status # "ok" THEN w
      ELSE LET distal_nodes == w.val.distal
               proximal_nodes == w.val.proximal
           IN  Ok([ dist |-> nodes_ix(n, distal_nodes,
                                connectors_where(n, distal_nodes, TRUE)),
                    prox |-> nodes_ix(n, proximal_nodes,
                                connectors_where(n, distal_nodes, FALSE)) ])

----------------------------------------------------------------------------
(* calc_strahler_index *)

\* previous_indices.count( max(previous_indices) )
count_max(previous_indices) ==
  LET m == Max(Range(previous_indices)) IN
  Cardinality({ i \in DOMAIN previous_indices : previous_indices[i] = m })

\* the index of a node from the indices of its childs
this_branch_index(previous_indices) ==
  IF Len(previous_indices) = 0 THEN 1
  ELSE IF Len(previous_indices) = 1 THEN previous_indices[1]
  ELSE IF count_max(previous_indices) >= 2
    THEN Max(Range(previous_indices)) + 1
  ELSE Max(Range(previous_indices))

\* the walk along the spine: up the parents until the parent is a branch
\* node or there is none; the spine, and the parent the walk stopped below
RECURSIVE spine_walk(_, _, _, _)
spine_walk(n, branch_nodes, this_node, spine) ==
  LET parent_node == n.parent_id[this_node] IN
  IF parent_node \notin branch_nodes /\ parent_node # None
  THEN spine_walk(n, branch_nodes, parent_node, Append(spine, parent_node))
  ELSE [ spine |-> spine, parent_node |-> parent_node ]

node_ready_at_first_child(list_of_childs, parent_node, processed) == TRUE

\* whether all childs of parent_node have been processed
node_ready(list_of_childs, parent_node, processed) ==
  \A i \in DOMAIN list_of_childs[parent_node] :
     list_of_childs[parent_node][i] \in processed

\* starting_points.remove(node)
RemoveFirst(s, node) ==
  IF \E i \in DOMAIN s : s[i] = node
  THEN LET k == Min({ i \in DOMAIN s : s[i] = node }) IN
       SubSeq(s, 1, k - 1) \o SubSeq(s, k + 1, Len(s))
  ELSE s

\* the orders the rows of type 'end' can come in
EndNodeOrders(n) ==
  LET ends == { t \in n.nodes : n.type[t] = "end" } IN
  { s \in [ 1..Cardinality(ends) -> ends ] : Range(s) = ends }

RECURSIVE RemoveAll(_, _)
RemoveAll(s, done) ==
  IF done = <<>> THEN s
  ELSE RemoveAll(RemoveFirst(s, Head(done)), Tail(done))

----------------------------------------------------------------------------
(* The neurons an operation is applied to *)

\* parent links of a tree on 1..k rooted at 1, every parent a smaller id
TreeParents(k) ==
  { p \in [ 1..k -> 0..k ] :
      /\ p[1] = None
      /\ \A t \in 2..k : p[t] \in 1..(t - 1) }

\* the rows of df.connectors, sorted by treenode
ConnectorRows(k) ==
  { c \in UNION { [ 1..m -> 1..k ] : m \in 0..MaxConn } :
      \A i \in 1..(Len(c) - 1) : c[i] <= c[i + 1] }

Untyped(k, p, c) ==
  [ nodes        |-> 1..k,
    parent_id    |-> p,
    typed        |-> FALSE,
    type         |-> [ t \in 1..k |-> "slab" ],
    has_synapses |-> [ t \in 1..k |-> FALSE ],
    connectors   |-> c ]

\* neurons as loaded, without or with the classification columns
Neurons ==
  LET raw == UNION { { Untyped(k, p, c) : p \in TreeParents(k),
                                          c \in ConnectorRows(k) }
                     : k \in 1..MaxNodes }
  IN  raw \cup { classify_nodes(n) : n \in raw }

\* a larger neuron: the root 1 carries a subtree of three forks (2; 3, 4) and
\* a subtree of a fork (10) below a branch node (9) that has a leaf too
ForkedNeuron ==
  Untyped(13, << None, 1, 2, 2, 3, 3, 4, 4, 1, 9, 9, 10, 10 >>, << >>)

NoOut == [ status |-> "none" ]

Call(op, arg, status) == [ op |-> op, arg |-> arg, status |-> status ]

\* the last operation applied, and how many were applied
last == hist[Len(hist)]

calls == Len(hist) - 1

StrahlerIdle ==
  /\ starting_points = <<>>
  /\ new_starting_points = <<>>
  /\ starting_points_done = <<>>
  /\ nodes_processed = {}
  /\ strahler_index = EmptyDict
  /\ pc = "idle"

InitOn(neurons) ==
  /\ df \in neurons
  /\ pre = df
  /\ orig = df
  /\ hist = << Call("load", None, "ok") >>
  /\ out = NoOut
  /\ StrahlerIdle

Init == InitOn(Neurons)

----------------------------------------------------------------------------
(* Operations *)

Classify ==
  /\ df' = classify_nodes(df)
  /\ pre' = df
  /\ hist' = Append(hist, Call("classify_nodes", None, "ok"))
  /\ out' = NoOut
  /\ UNCHANGED <<orig, strahlerVars>>

Downsample(factor) ==
  /\ LET r == downsample_neuron(df, factor) IN
       /\ df' = IF r.status = "ok" THEN r.val ELSE df
       /\ hist' = Append(hist, Call("downsample_neuron", factor, r.status))
  /\ pre' = df
  /\ out' = NoOut
  /\ UNCHANGED <<orig, strahlerVars>>

\* df = reroot_neuron(df, new_root): the caller keeps what is returned
Reroot(new_root) ==
  /\ new_root \in df.nodes
  /\ LET r == reroot_neuron(df, new_root) IN
       /\ df' = IF r.status \in { "ok", "noop" } THEN r.val ELSE df
       /\ hist' = Append(hist, Call("reroot_neuron", new_root, r.status))
  /\ pre' = df
  /\ out' = NoOut
  /\ UNCHANGED <<orig, strahlerVars>>

\* dist, prox = cut_neuron(df, cut_node): df itself is left as it is
CutNeuron(cut_node) ==
  /\ cut_node \in df.nodes
  /\ LET r == cut_neuron(df, cut_node) IN
       /\ out' = IF r.status = "ok" THEN r.val ELSE NoOut
       /\ hist' = Append(hist, Call("cut_neuron", cut_node, r.status))
  /\ pre' = df
  /\ UNCHANGED <<df, orig, strahlerVars>>

\* dist, prox = _cut_neuron(df, cut_node)
CutNeuronWalk(cut_node) ==
  /\ cut_node \in df.nodes
  /\ LET r == _cut_neuron(df, cut_node) IN
       /\ out' = IF r.status = "ok" THEN r.val ELSE NoOut
       /\ hist' = Append(hist, Call("_cut_neuron", cut_node, r.status))
  /\ pre' = df
  /\ UNCHANGED <<df, orig, strahlerVars>>

\* calc_strahler_index up to its while loop; the rows of type 'end' come in
\* any order
StrahlerStart ==
  /\ pc = "idle"
  /\ LET n == IF df.typed THEN df ELSE classify_nodes(df) IN
       /\ df' = n
       /\ \E end_nodes \in EndNodeOrders(n) : starting_points' = end_nodes
       /\ strahler_index' =
            [ t \in DOMAIN generate_list_of_childs(n) \ {None} |-> None ]
  /\ new_starting_points' = <<>>
  /\ starting_points_done' = <<>>
  /\ nodes_processed' = {}
  /\ pc' = "while"
  /\ pre' = df
  /\ hist' = Append(hist, Call("calc_strahler_index", None, "running"))
  /\ UNCHANGED <<orig, out>>

\* one turn of the for loop: the next starting point of this wave
StrahlerStep ==
  /\ pc = "while"
  /\ Len(starting_points_done) < Len(starting_points)
  /\ LET en == starting_points[Len(starting_points_done) + 1]
         list_of_childs == generate_list_of_childs(df)
         branch_nodes == { t \in df.nodes : df.type[t] = "branch" }
         previous_indices == [ i \in DOMAIN list_of_childs[en] |->
                                 strahler_index[list_of_childs[en][i]] ]
         index == this_branch_index(previous_indices)
         w == spine_walk(df, branch_nodes, en, << en >>)
         processed == nodes_processed \cup Range(w.spine)
     IN
       /\ nodes_processed' = processed
       /\ starting_points_done' = Append(starting_points_done, en)
       /\ strahler_index' =
            Update(strahler_index, [ t \in Range(w.spine) |-> index ])
       /\ new_starting_points' =
            IF node_ready(list_of_childs, w.parent_node, processed)
               /\ w.parent_node # None
            THEN Append(new_starting_points, w.parent_node)
            ELSE new_starting_points
  /\ UNCHANGED <<df, pre, orig, hist, out, starting_points, pc>>

\* the end of a wave: the starting points done leave, the new ones join,
\* and the while loop goes on if any is left
StrahlerWave ==
  /\ pc = "while"
  /\ Len(starting_points_done) = Len(starting_points)
  /\ LET left == RemoveAll(starting_points, starting_points_done)
                   \o new_starting_points
     IN
       /\ starting_points' = left
       /\ pc' = IF left = <<>> THEN "done" ELSE "while"
       /\ hist' = IF left = <<>>
                  THEN [ hist EXCEPT ![Len(hist)].status = "ok" ]
                  ELSE hist
  /\ new_starting_points' = <<>>
  /\ starting_points_done' = <<>>
  /\ UNCHANGED <<df, pre, orig, out, nodes_processed, strahler_index>>

NextStrahler == StrahlerStart \/ StrahlerStep \/ StrahlerWave

\* every operation applied to the neuron as loaded
Next ==
  \/ calls = 0 /\ Classify
  \/ calls = 0 /\ \E factor \in 1..MaxFactor : Downsample(factor)
  \/ calls = 0 /\ \E new_root \in NodeIds : Reroot(new_root)
  \/ calls = 0 /\ \E cut_node \in NodeIds : CutNeuron(cut_node)
  \/ calls = 0 /\ \E cut_node \in NodeIds : CutNeuronWalk(cut_node)

Spec == Init /\ [][Next]_vars

\* the neurons without connectors
BareNeurons == { n \in Neurons : n.connectors = << >> }

\* reroot_neuron applied again and again to the neuron it returned (it reads
\* no connectors: on the neurons without any)
NextReroot ==
  calls < MaxReroots /\ \E new_root \in NodeIds : Reroot(new_root)

SpecReroot == InitOn(BareNeurons) /\ [][NextReroot]_vars

\* calc_strahler_index step by step, on the neurons above (it reads no
\* connectors: those without any) and a larger one
SpecStrahler == InitOn(BareNeurons \cup { ForkedNeuron }) /\ [][NextStrahler]_vars

----------------------------------------------------------------------------
(* Well-formed neurons, and the tree they describe *)

Children(n, t) == { c \in n.nodes : n.parent_id[c] = t }

\* the nodes from t up to the root, t included
RECURSIVE UpSet(_, _, _)
UpSet(n, t, fuel) ==
  IF t \notin n.nodes \/ fuel = 0 THEN {}
  ELSE {t} \cup UpSet(n, n.parent_id[t], fuel - 1)

Ancestors(n, t) == UpSet(n, t, Cardinality(n.nodes)) \ {t}

Descendants(n, t) == { d \in n.nodes : t \in Ancestors(n, d) }

Roots(n) == { t \in n.nodes : n.parent_id[t] = None }

\* invariants (a), (b), (c): one root, parents present, no cycle
WellFormed(n) ==
  /\ Cardinality(Roots(n)) = 1
  /\ \A t \in n.nodes : n.parent_id[t] = None \/ n.parent_id[t] \in n.nodes
  /\ \A t \in n.nodes : Roots(n) \subseteq UpSet(n, t, Cardinality(n.nodes))

\* the role the child count gives a node
Role(n, t) ==
  IF n.parent_id[t] = None THEN "root"
  ELSE IF Cardinality(Children(n, t)) = 0 THEN "end"
  ELSE IF Cardinality(Children(n, t)) = 1 THEN "slab"
  ELSE "branch"

\* the 'type' column is there and agrees with the parent links
Classified(n) == n.typed /\ \A t \in n.nodes : n.type[t] = Role(n, t)

----------------------------------------------------------------------------
(* Claims *)

\* C1: classify_nodes on a well-formed neuron labels exactly one node 'root',
\* the parentless one, and every other node 'end', 'slab' or 'branch' by its
\* number of children (0, 1, 2 or more): each node has exactly one role.
C1_ClassifyRoles ==
  (last.op = "classify_nodes" /\ WellFormed(pre)) =>
     /\ df.typed
     /\ df.nodes = pre.nodes
     /\ Cardinality({ t \in df.nodes : df.type[t] = "root" }) = 1
     /\ \A t \in df.nodes : df.type[t] = Role(pre, t)

C1_Witness ==
  /\ last.op = "classify_nodes"
  /\ WellFormed(pre)
  /\ { df.type[t] : t \in df.nodes } = { "root", "end", "slab", "branch" }
  /\ \E t \in df.nodes : df.type[t] = "root" /\ Cardinality(Children(df, t)) = 1

\* C2: downsample_neuron with resampling_factor = 1 returns the nodes and the
\* parent links of its input unchanged.
C2_Factor1Identity ==
  (last.op = "downsample_neuron" /\ last.arg = 1 /\ WellFormed(pre)) =>
     /\ last.status = "ok"
     /\ df.nodes = pre.nodes
     /\ df.parent_id = pre.parent_id

\* C3: downsample_neuron keeps every fixed point of a well-formed classified
\* neuron: the root, the end nodes, the branch nodes and the nodes a
\* connector attaches to.
C3_FixPointsKept ==
  (last.op = "downsample_neuron" /\ WellFormed(pre) /\ Classified(pre)) =>
     /\ last.status = "ok"
     /\ \A t \in pre.nodes :
          (Role(pre, t) # "slab" \/ t \in Range(pre.connectors))
             => t \in df.nodes

C3_Witness ==
  /\ last.op = "downsample_neuron"
  /\ WellFormed(pre) /\ Classified(pre)
  /\ df.nodes # pre.nodes
  /\ \E t \in df.nodes : Role(pre, t) = "slab" /\ t \in Range(pre.connectors)

\* C5: reroot_neuron to a node that is not the root returns a neuron whose
\* only parentless node is the target, with every other parent a node of
\* the neuron and no cycle.
C5_RerootWellFormed ==
  (last.op = "reroot_neuron" /\ WellFormed(pre)
     /\ pre.parent_id[last.arg] # None) =>
       /\ last.status = "ok"
       /\ Roots(df) = { last.arg }
       /\ WellFormed(df)

\* C4: reroot_neuron to a node X other than the root R, then reroot_neuron
\* to R on the result, gives back the parent link of every node.
C4_RerootRoundTrip ==
  (/\ calls = 2
   /\ hist[2].op = "reroot_neuron" /\ hist[3].op = "reroot_neuron"
   /\ WellFormed(orig)
   /\ hist[2].arg \notin Roots(orig)
   /\ hist[3].arg \in Roots(orig)) =>
       /\ hist[2].status = "ok"
       /\ hist[3].status = "ok"
       /\ df.nodes = orig.nodes
       /\ df.parent_id = orig.parent_id

\* the cut node together with its descendants under the original rooting
Subtree(n, t) == {t} \cup Descendants(n, t)

Partition(halves, n) ==
  /\ halves.dist.nodes \cap halves.prox.nodes = {}
  /\ halves.dist.nodes \cup halves.prox.nodes = n.nodes

RECURSIVE StrahlerOrder(_, _)
StrahlerOrder(n, t) ==
  LET kids == Children(n, t)
      orders == { StrahlerOrder(n, c) : c \in kids }
  IN  IF kids = {} THEN 1
      ELSE IF Cardinality({ c \in kids : StrahlerOrder(n, c) = Max(orders) }) >= 2
        THEN Max(orders) + 1
      ELSE Max(orders)

\* C9: calc_strahler_index gives every node, the root included, the order
\* defined bottom-up from its children: 1 without children, the child's order
\* with one child, else the maximum of the children's orders, plus 1 when two
\* or more children attain it.
C9_StrahlerOrders ==
  (pc = "done" /\ WellFormed(orig)) =>
     \A t \in df.nodes : strahler_index[t] = StrahlerOrder(df, t)

\* C10: after calc_strahler_index, whatever the order the end nodes were
\* processed in, every end node has order 1 and the order of the root is at
\* least the order of each of its descendants.
C10_EndsOneRootMax ==
  (pc = "done" /\ WellFormed(orig)) =>
     /\ \A t \in df.nodes : Role(df, t) = "end" => strahler_index[t] = 1
     /\ \A r \in Roots(df) : \A t \in Descendants(df, r) :
          strahler_index[r] >= strahler_index[t]

----------------------------------------------------------------------------
(* calc_strahler_index: termination and coverage *)

\* a turn of the loops of calc_strahler_index either processes a node not
\* processed before, or closes a wave in which a starting point was done, or
\* leaves the while loop: the loops cannot go on for ever
StrahlerVariantDecreases ==
  [][ pc = "while" =>
        \/ nodes_processed \subseteq nodes_processed'
             /\ nodes_processed' # nodes_processed
        \/ nodes_processed' = nodes_processed
             /\ starting_points_done # <<>> /\ starting_points_done' = <<>>
        \/ pc' = "done" ]_vars

\* inside the while loop there is always a turn to take
StrahlerNotStuck ==
  pc = "while" => Len(starting_points_done) <= Len(starting_points)

\* C11: on a well-formed neuron with at least one node calc_strahler_index
\* terminates with every node given a positive integer order: none is left
\* unassigned (None).
C11_AllOrdered ==
  (pc = "done" /\ WellFormed(orig) /\ orig.nodes # {}) =>
     \A t \in df.nodes : strahler_index[t] # None /\ strahler_index[t] >= 1

----------------------------------------------------------------------------
(* _walk_to_root, as synapse_root_distances calls it *)

\* math.sqrt of the sum of squared differences, for treenodes on the x axis
\* (y = z = 0): the distance along x
_calc_dist(v1, v2) == IF v1 >= v2 THEN v1 - v2 ELSE v2 - v1

\* list_of_parents = { n[0]: (n[1], n[3], n[4], n[5]) for n in skdata[0] }:
\* under each treenode id its parent id, with the coordinates of its own row
list_of_parents(n) ==
  [ t \in n.nodes |-> [ id |-> n.parent_id[t], x |-> n.x[t] ] ]

\* ( n[0], n[3], n[4], n[5] ) of the row of treenode nd
start_node(n, nd) == [ id |-> nd, x |-> n.x[nd] ]

\* a dict that keeps the order its keys were inserted in
EmptyCache == [ keys |-> <<>>, val |-> EmptyDict ]

\* sum( distances_traveled[i:] ), i counted from 0
RECURSIVE sum_from(_, _)
sum_from(distances_traveled, i) ==
  IF i >= Len(distances_traveled) THEN 0
  ELSE distances_traveled[i + 1] + sum_from(distances_traveled, i + 1)

\* the while loop of _walk_to_root: distances_traveled and nodes_seen at its
\* end, or the KeyError of a lookup in list_of_parents
RECURSIVE walk_to_root_loop(_, _, _, _, _)
walk_to_root_loop(lop, visited_nodes, this_node, distances_traveled, nodes_seen) ==
  IF this_node.id \notin DOMAIN lop THEN Raised("KeyError")
  ELSE IF lop[this_node.id].id = None
    THEN Ok([ distances_traveled |-> distances_traveled,
              nodes_seen |-> nodes_seen ])
  ELSE
    LET parent == lop[this_node.id] IN
    IF parent.id \notin DOMAIN visited_nodes.val
    THEN walk_to_root_loop(lop, visited_nodes, parent,
           Append(distances_traveled, _calc_dist(this_node.x, parent.x)),
           Append(nodes_seen, this_node.id))
    ELSE Ok([ distances_traveled |->
                Append(distances_traveled, visited_nodes.val[parent.id]),
              nodes_seen |-> Append(nodes_seen, this_node.id) ])

enumerated_nodes_seen(visited_nodes, nodes_seen) == nodes_seen

\* what the update of the cache enumerates: the keys of visited_nodes
enumerated(visited_nodes, nodes_seen) == visited_nodes.keys

\* visited_nodes.update( { n: sum( distances_traveled[i:] ) ... } )
RECURSIVE cache_update(_, _, _, _)
cache_update(visited_nodes, ns, distances_traveled, i) ==
  IF i >= Len(ns) THEN visited_nodes
  ELSE LET n == ns[i + 1]
           keys == IF n \in DOMAIN visited_nodes.val
                   THEN visited_nodes.keys
                   ELSE Append(visited_nodes.keys, n)
       IN  cache_update([ keys |-> keys,
                          val  |-> Put(visited_nodes.val, n,
                                       sum_from(distances_traveled, i)) ],
                        ns, distances_traveled, i + 1)

\* dist, visited_nodes = _walk_to_root( start_node, list_of_parents,
\* visited_nodes ); round() leaves the whole-numbered lengths as they are
_walk_to_root(start, lop, visited_nodes) ==
  LET w == walk_to_root_loop(lop, visited_nodes, start, <<>>, <<>>) IN
  IF w.status # "ok" THEN w
  ELSE Ok([ dist |-> sum_from(w.val.distances_traveled, 0),
            visited_nodes |->
              cache_update(visited_nodes,
                           enumerated(visited_nodes, w.val.nodes_seen),
                           w.val.distances_traveled, 0) ])

\* a neuron with its treenodes placed on the x axis, the root at 0
Located(n, x) ==
  [ nodes |-> n.nodes, parent_id |-> n.parent_id, typed |-> n.typed,
    type |-> n.type, has_synapses |-> n.has_synapses,
    connectors |-> n.connectors, x |-> x ]

LocatedNeurons ==
  UNION { { Located(Untyped(k, p, << >>), x) :
              p \in TreeParents(k),
              x \in { c \in [ 1..k -> 0..MaxCoord ] : c[1] = 0 } }
          : k \in 1..MaxWalkNodes }

\* the cache the next call is handed: {} before the first call (line 743),
\* then the one the call before returned
visited_nodes_now ==
  IF last.op = "_walk_to_root" /\ out.status = "ok"
  THEN out.val.visited_nodes
  ELSE EmptyCache

\* one turn of the loop of synapse_root_distances over a connector on
\* treenode nd of this neuron
WalkToRoot(nd) ==
  /\ nd \in DOMAIN list_of_parents(df)
  /\ LET r == _walk_to_root(start_node(df, nd), list_of_parents(df),
                            visited_nodes_now)
     IN  /\ out' = r
         /\ hist' = Append(hist, Call("_walk_to_root", nd, r.status))
  /\ pre' = df
  /\ UNCHANGED <<df, orig, strahlerVars>>

NextWalk == calls < MaxWalks /\ \E nd \in 1..MaxWalkNodes : WalkToRoot(nd)

SpecWalk == InitOn(LocatedNeurons) /\ [][NextWalk]_vars

\* the sum of the edge lengths on the path from t to the root
RECURSIVE PathLength(_, _)
PathLength(n, t) ==
  IF n.parent_id[t] = None THEN 0
  ELSE _calc_dist(n.x[t], n.x[n.parent_id[t]]) + PathLength(n, n.parent_id[t])

----------------------------------------------------------------------------
(* reroot_neuron: the target is the root already *)

\* the outcomes in which reroot_neuron hands a neuron back to its caller:
\* "ok", and "noop", where line 319 writes an error to the log and line 320
\* returns df
reroot_returns == { "ok", "noop" }

\* C13: reroot_neuron to the node that is the root already fails with an
\* error outcome; it does not return a neuron as a normal result.
C13_RootTargetFails ==
  (last.op = "reroot_neuron" /\ WellFormed(pre)
     /\ pre.parent_id[last.arg] = None) =>
       last.status \notin reroot_returns

----------------------------------------------------------------------------
(* generate_list_of_childs and classify_nodes on rows with a parent_id that
   is no treenode of the neuron *)

\* the parent_id refers to no row of df.nodes
Dangling(n, t) == n.parent_id[t] # None /\ n.parent_id[t] \notin n.nodes

\* neurons of treenodes 1..k in which some parent_id is k + 1, no treenode
DanglingNeurons ==
  UNION { { Untyped(k, p, << >>) :
              p \in { q \in [ 1..k -> 0..(k + 1) ] :
                        \E t \in 1..k : q[t] = k + 1 } }
          : k \in 1..MaxDanglingNodes }

\* list_of_childs = generate_list_of_childs( df )
GenerateListOfChilds ==
  /\ out' = Ok(generate_list_of_childs(df))
  /\ hist' = Append(hist, Call("generate_list_of_childs", None, "ok"))
  /\ pre' = df
  /\ UNCHANGED <<df, orig, strahlerVars>>

NextDangling ==
  \/ calls = 0 /\ GenerateListOfChilds
  \/ calls = 0 /\ Classify

SpecDangling == InitOn(DanglingNeurons) /\ [][NextDangling]_vars

\* C14: generate_list_of_childs, and classify_nodes through it, on a neuron
\* in which some parent_id refers to no treenode of the neuron end in an
\* error: no adjacency and no classification is returned.
C14_DanglingParentRejected ==
  (/\ last.op \in { "generate_list_of_childs", "classify_nodes" }
   /\ \E t \in pre.nodes : Dangling(pre, t)) =>
     last.status # "ok"

----------------------------------------------------------------------------
(* The splitters at a leaf *)

----------------------------------------------------------------------------
(* downsample_neuron: how far a node is reattached *)

\* the nodes strictly between t and its ancestor a on the path to the root
Between(n, t, a) == Ancestors(n, t) \cap Descendants(n, a)

\* C16: every node kept by downsample_neuron with factor f >= 1 is attached
\* to one of its ancestors, with at most f - 1 nodes of the input strictly
\* between the node and its new parent.
C16_SkipsBelowFactor ==
  (last.op = "downsample_neuron" /\ WellFormed(pre) /\ last.status = "ok") =>
     \A t \in df.nodes :
        df.parent_id[t] # None =>
          /\ df.parent_id[t] \in Ancestors(pre, t)
          /\ Cardinality(Between(pre, t, df.parent_id[t])) <= last.arg - 1

----------------------------------------------------------------------------
(* reroot_neuron: the 'type' column of the neuron returned *)

\* C17: on a neuron that carries role labels, the neuron returned by a
\* successful reroot_neuron has the labels of a fresh classification of its
\* new parent links: the target is labelled 'root' and the former root is
\* not.
C17_RerootLabelsFresh ==
  (/\ last.op = "reroot_neuron" /\ last.status = "ok"
   /\ WellFormed(pre) /\ Classified(pre)) =>
     /\ \A t \in df.nodes : df.type[t] = Role(df, t)
     /\ df.type[last.arg] = "root"
     /\ \A r \in Roots(pre) : df.type[r] # "root"

----------------------------------------------------------------------------
(* cut_neuron: the parent of the cut node in the proximal half *)

\* C18: for a well-formed classified neuron and a cut node with parent P, in
\* the proximal half returned by cut_neuron P is labelled 'end' and has no
\* children: it is a leaf of proximal.
C18_ParentIsLeafOfProximal ==
  (/\ last.op = "cut_neuron" /\ last.status = "ok"
   /\ WellFormed(pre) /\ Classified(pre)
   /\ pre.parent_id[last.arg] # None) =>
     LET P == pre.parent_id[last.arg] IN
       /\ P \in out.prox.nodes
       /\ out.prox.type[P] = "end"
       /\ Children(out.prox, P) = {}

----------------------------------------------------------------------------
(* cut_neuron on a CatmaidNeuron: the halves built at lines 529-544 *)

\* df.nodes.ix[ ids ] after df.nodes.reset_index (line 522) has put the rows
\* back under their positions 0, 1, ...: the rows whose position is among
\* ids (a label that is no position gives a row of NaN, with no treenode)
nodes_ix_after_reset(n, ids, c) ==
  LET rows == { Rows(n)[l + 1] : l \in ids \cap (0..(Len(Rows(n)) - 1)) } IN
  [ nodes        |-> rows,
    parent_id    |-> [ t \in rows |-> n.parent_id[t] ],
    typed        |-> n.typed,
    type         |-> [ t \in rows |-> n.type[t] ],
    has_synapses |-> [ t \in rows |-> n.has_synapses[t] ],
    connectors   |-> c ]

\* n_dist, n_prox for a CatmaidNeuron, from the partitions of cut_neuron
cut_neuron_CatmaidNeuron(n, cut_node) ==
  LET r == cut_neuron(n, cut_node) IN
  IF r.status # "ok" THEN r
  ELSE
  LET dist_partition_ids == r.val.dist.nodes
      prox_partition_ids == r.val.prox.nodes
  IN  Ok([ dist |-> nodes_ix_after_reset(n, dist_partition_ids,
                      connectors_where(n, dist_partition_ids, TRUE)),
           prox |-> nodes_ix_after_reset(n, prox_partition_ids,
                      connectors_where(n, prox_partition_ids, TRUE)) ])

\* n_dist, n_prox = cut_neuron(df, cut_node) with df a CatmaidNeuron
CutNeuronCatmaidNeuron(cut_node) ==
  /\ cut_node \in df.nodes
  /\ LET r == cut_neuron_CatmaidNeuron(df, cut_node) IN
       /\ out' = IF r.status = "ok" THEN r.val ELSE NoOut
       /\ hist' = Append(hist, Call("cut_neuron on CatmaidNeuron", cut_node,
                                    r.status))
  /\ pre' = df
  /\ UNCHANGED <<df, orig, strahlerVars>>

\* each splitter applied to the neuron as loaded
NextCut ==
  \/ calls = 0 /\ \E cut_node \in NodeIds : CutNeuron(cut_node)
  \/ calls = 0 /\ \E cut_node \in NodeIds : CutNeuronCatmaidNeuron(cut_node)
  \/ calls = 0 /\ \E cut_node \in NodeIds : CutNeuronWalk(cut_node)

SpecCut == Init /\ [][NextCut]_vars

\* how many rows of connectors are on treenode t
RowsOn(connectors, t) ==
  Cardinality({ i \in DOMAIN connectors : connectors[i] = t })

\* every connector of n is in exactly one of the halves, the one that holds
\* its treenode
ConnectorsFollowNodes(halves, n) ==
  \A t \in Range(n.connectors) :
     \/ /\ t \in halves.dist.nodes
        /\ RowsOn(halves.dist.connectors, t) = RowsOn(n.connectors, t)
        /\ RowsOn(halves.prox.connectors, t) = 0
     \/ /\ t \in halves.prox.nodes
        /\ RowsOn(halves.prox.connectors, t) = RowsOn(n.connectors, t)
        /\ RowsOn(halves.dist.connectors, t) = 0

\* C19: for every split made by cut_neuron or _cut_neuron, each connector of
\* the input is in exactly one of the two halves, the one whose nodes
\* include the treenode the connector is attached to.
C19_ConnectorsFollowNodes ==
  (/\ last.op \in { "cut_neuron", "cut_neuron on CatmaidNeuron",
                    "_cut_neuron" }
   /\ last.status = "ok"
   /\ WellFormed(pre)) =>
     ConnectorsFollowNodes(out, pre)

\* the same, for the halves cut_neuron returns for a pandas Series and the
\* halves of _cut_neuron
ConnectorsFollowNodesOfSeries ==
  (/\ last.op \in { "cut_neuron", "_cut_neuron" }
   /\ last.status = "ok"
   /\ WellFormed(pre)) =>
     ConnectorsFollowNodes(out, pre)

----------------------------------------------------------------------------
(* calc_strahler_index: when a branch node joins the starting points *)

\* the nodes of type 'branch' of the neuron calc_strahler_index works on
BranchNodes == { t \in df.nodes : df.type[t] = "branch" }

\* the index of every child of b has been set
ChildsIndexed(b) ==
  \A c \in Children(df, b) :
     c \in DOMAIN strahler_index /\ strahler_index[c] # None

\* the starting points of this wave and of the next
Frontier == Range(starting_points) \cup Range(new_starting_points)

\* a turn of the for loop appends b to new_starting_points
JoinsFrontier(b) ==
  /\ Len(new_starting_points') = Len(new_starting_points) + 1
  /\ new_starting_points'[Len(new_starting_points')] = b

\* C20: during calc_strahler_index a 'branch' node is added to the frontier,
\* and has its order computed, only after every one of its children has been
\* given an order, and it is added to the frontier at most once.
C20_BranchAfterChildsOnce ==
  /\ [](pc = "while" => \A b \in BranchNodes \cap Frontier : ChildsIndexed(b))
  /\ [][ pc = "while" =>
           \A b \in BranchNodes :
              /\ JoinsFrontier(b) =>
                   /\ ChildsIndexed(b)'
                   /\ b \notin Frontier
                   /\ b \notin nodes_processed'
              /\ (b \notin nodes_processed /\ b \in nodes_processed') =>
                   ChildsIndexed(b) ]_vars

\* a branch node below which a branch node lies has been a starting point
\* and has its index
C20_Witness ==
  /\ pc = "done"
  /\ WellFormed(orig)
  /\ \E b \in BranchNodes :
       /\ b \in nodes_processed
       /\ strahler_index[b] >= 2
       /\ \E c \in Children(df, b) : c \in BranchNodes

----------------------------------------------------------------------------
(* _walk_to_root: what a walk leaves in the cache *)

\* the nodes a walk from t passes on its way to the root: t and its
\* ancestors below the root
WalkedPath(n, t) == ({ t } \cup Ancestors(n, t)) \ Roots(n)

\* the number of turns of the while loop of a walk from t handed this cache
TurnsFrom(n, t, visited_nodes) ==
  Len(walk_to_root_loop(list_of_parents(n), visited_nodes, start_node(n, t),
                        <<>>, <<>>).val.nodes_seen)

\* C21: after _walk_to_root has walked from a node N to the root with a
\* shared cache, the cache has entries for the nodes of the walked path, and
\* a later walk whose path reaches one of them stops there instead of
\* walking on to the root.
C21_CachePopulated ==
  (last.op = "_walk_to_root" /\ last.status = "ok" /\ WellFormed(df)) =>
     LET visited_nodes == out.val.visited_nodes IN
       /\ WalkedPath(df, last.arg) \subseteq DOMAIN visited_nodes.val
       /\ \A M \in df.nodes :
            Ancestors(df, M) \cap WalkedPath(df, last.arg) # {} =>
              TurnsFrom(df, M, visited_nodes) < Cardinality(Ancestors(df, M))

----------------------------------------------------------------------------
(* _walk_to_root handed a cache of exact distances *)

\* a cache with an entry for each node of S, each the length of the path
\* from the node to the root
ExactCache(n, S) ==
  [ keys |-> SortedSeq(S), val |-> [ N \in S |-> PathLength(n, N) ] ]

\* dist, visited_nodes = _walk_to_root( ... ) from treenode nd, with a cache
\* that holds exact distances for the nodes of S
WalkToRootWithCache(nd, S) ==
  /\ nd \in DOMAIN list_of_parents(df)
  /\ S \subseteq df.nodes
  /\ LET r == _walk_to_root(start_node(df, nd), list_of_parents(df),
                            ExactCache(df, S))
     IN  /\ out' = r
         /\ hist' = Append(hist, Call("_walk_to_root", nd, r.status))
  /\ pre' = df
  /\ UNCHANGED <<df, orig, strahlerVars>>

NextWalkWithCache ==
  calls = 0 /\ \E nd \in 1..MaxWalkNodes :
                 \E S \in SUBSET (1..MaxWalkNodes) : WalkToRootWithCache(nd, S)

SpecWalkWithCache == InitOn(LocatedNeurons) /\ [][NextWalkWithCache]_vars

\* C22: on a well-formed tree, from every start node and with every cache
\* whose entries are exact distances to the root, _walk_to_root returns the
\* sum of the edge lengths on the path from the start node to the root,
\* whether or not the walk stops early at a cached node.
C22_DistanceIsPathLength ==
  (last.op = "_walk_to_root" /\ last.status = "ok" /\ WellFormed(df)) =>
     out.val.dist = PathLength(df, last.arg)

----------------------------------------------------------------------------
(* downsample_neuron: the tree it returns *)

\* C23: on a well-formed classified neuron and with every factor >= 1,
\* downsample_neuron returns a well-formed tree: the root of the input is
\* its only parentless node, and the new parent of every other node kept is
\* a node kept and a proper ancestor of the node in the input.
C23_DownsampledWellFormed ==
  (last.op = "downsample_neuron" /\ WellFormed(pre) /\ Classified(pre)) =>
     /\ last.status = "ok"
     /\ WellFormed(df)
     /\ Roots(df) = Roots(pre)
     /\ \A t \in df.nodes \ Roots(pre) :
          /\ df.parent_id[t] \in df.nodes
          /\ df.parent_id[t] \in Ancestors(pre, t)

\* with factor 2 a node was dropped below a branch node, which became the
\* parent of the node below the dropped one
C23_Witness ==
  /\ last.op = "downsample_neuron" /\ last.status = "ok" /\ last.arg = 2
  /\ WellFormed(pre) /\ Classified(pre)
  /\ \E b \in df.nodes :
       /\ Role(pre, b) = "branch"
       /\ \E t \in df.nodes :
            /\ df.parent_id[t] = b
            /\ pre.parent_id[t] \notin df.nodes

====
